---- MODULE Spec2Model ----
(***************************************************************************)
(* A model of the motionalyx PDF service: the substitution engine          *)
(* (renderTemplate / formatDate), the shared browser (getBrowser,          *)
(* htmlToPdfBuffer, shutdown), the upload step (uploadPdfAndSign) and the   *)
(* two render routes (POST /pdf, POST /pdfs).                               *)
(*                                                                         *)
(* Text is a sequence of characters.  Three kinds of atoms stand for text  *)
(* whose inner structure the code never looks at again: a date filter      *)
(* `| date: "fmt"` is one atom ("|B" for the format "%B %d, %Y", "|o" for   *)
(* any other format), a date literal a caller sends is the atom "D", and   *)
(* the two renderings of that date are the atoms "M" (month name, day,     *)
(* year) and "I" (ISO).                                                     *)
(***************************************************************************)
EXTENDS Naturals, Integers, Sequences, FiniteSets, Bags, TLC

VARIABLES
    tpl,            \* renderTemplate: the html argument
    data,           \* renderTemplate: the data argument
    out,            \* renderTemplate: the returned html
    rpc,            \* "call" before renderTemplate runs, "done" after
    BUCKET_NAME,    \* process.env.BUCKET_NAME || ""
    browserPromise, \* "null", or the state of the promise chromium.launch gave
    launchCalls,    \* how many times chromium.launch was called
    closeCalls,     \* how many times browser.close was called
    openContexts,   \* the browser contexts that are open: <<request, key index>>
    exited,         \* process.exit was called
    sd,             \* one shutdown() invocation per delivered signal
    req,            \* the requests: handler position, payload, response
    uploads,        \* the uploadPdfAndSign calls made: a bag of [name, generated]
    saveCalls,      \* how many times file.save was called
    signCalls,      \* how many times file.getSignedUrl was called
    clock,          \* the second nowStamp() reads
    uuidCount       \* how many times crypto.randomUUID was called

rvars == <<tpl, data, out, rpc>>
svars == <<BUCKET_NAME, browserPromise, launchCalls, closeCalls, openContexts,
           exited, sd, req, uploads, saveCalls, signCalls, clock, uuidCount>>
vars == <<rvars, svars>>

(***************************************************************************)
(* Characters and payload values                                           *)
(***************************************************************************)
WS == {" "}
Ident == {"a", "b"}
Filters == {"|B", "|o"}

\* a payload value: undefined, null, a string or a number
Undefined == [t |-> "undefined", s |-> <<>>]
Null == [t |-> "null", s |-> <<>>]
Str(s) == [t |-> "string", s |-> s]
Num(s) == [t |-> "number", s |-> s]

\* String(v) of a defined value
String(v) ==
    v.s

\* !input
Falsy(v) ==
    \/ v.t \in {"undefined", "null"}
    \/ v.t = "string" /\ v.s = <<>>
    \/ v.t = "number" /\ v.s = <<"0">>

\* !Number.isNaN(new Date(input).getTime())
ValidDate(v) ==
    \/ v.t = "number"
    \/ v.t = "string" /\ v.s = <<"D">>

\* data?.[key]
Lookup(d, key) ==
    IF key = <<"a">> THEN d.a
    ELSE IF key = <<"b">> THEN d.b
    ELSE Undefined

formatDate(input, fmt) ==
    IF Falsy(input) THEN <<>>
    ELSE IF ~ValidDate(input) THEN String(input)
    ELSE IF fmt = "|B" THEN <<"M">>
    ELSE <<"I">>

(***************************************************************************)
(* The two regular expressions.  Span is a greedy character-class run; the *)
(* classes are disjoint from what follows them, so greedy is the only way  *)
(* to match.                                                               *)
(***************************************************************************)
Span(s, i, C) ==
    CHOOSE j \in i..(Len(s) + 1) :
        /\ \A k \in i..(j - 1) : s[k] \in C
        /\ (j = Len(s) + 1 \/ s[j] \notin C)

NoMatch == [ok |-> FALSE, end |-> 0, key |-> <<>>, fmt |-> ""]

\* /{{\s*([a-zA-Z0-9_]+)\s*\|\s*date:\s*"([^"]+)"\s*}}/ anchored at i
MatchDate(s, i) ==
    IF ~(i + 1 <= Len(s) /\ s[i] = "{" /\ s[i + 1] = "{") THEN NoMatch
    ELSE
        LET k1 == Span(s, i + 2, WS)
            k2 == Span(s, k1, Ident)
            k3 == Span(s, k2, WS)
            k5 == Span(s, k3 + 1, WS)
        IN  IF /\ k2 > k1
               /\ k3 <= Len(s)
               /\ s[k3] \in Filters
               /\ k5 + 1 <= Len(s)
               /\ s[k5] = "}"
               /\ s[k5 + 1] = "}"
            THEN [ok |-> TRUE, end |-> k5 + 2,
                  key |-> SubSeq(s, k1, k2 - 1), fmt |-> s[k3]]
            ELSE NoMatch

\* /{{\s*([a-zA-Z0-9_]+)\s*}}/ anchored at i
MatchBare(s, i) ==
    IF ~(i + 1 <= Len(s) /\ s[i] = "{" /\ s[i + 1] = "{") THEN NoMatch
    ELSE
        LET k1 == Span(s, i + 2, WS)
            k2 == Span(s, k1, Ident)
            k3 == Span(s, k2, WS)
        IN  IF /\ k2 > k1
               /\ k3 + 1 <= Len(s)
               /\ s[k3] = "}"
               /\ s[k3 + 1] = "}"
            THEN [ok |-> TRUE, end |-> k3 + 2,
                  key |-> SubSeq(s, k1, k2 - 1), fmt |-> ""]
            ELSE NoMatch

\* the replacement callback of the second pass
BareValue(d, key) ==
    LET v == Lookup(d, key)
    IN  IF v.t \in {"undefined", "null"} THEN <<>> ELSE String(v)

RECURSIVE ReplaceDate(_, _, _)
\* html.replace(<date regex>/g, ...) from position i on
ReplaceDate(s, i, d) ==
    IF i > Len(s) THEN <<>>
    ELSE
        LET m == MatchDate(s, i)
        IN  IF m.ok
            THEN formatDate(Lookup(d, m.key), m.fmt) \o ReplaceDate(s, m.end, d)
            ELSE <<s[i]>> \o ReplaceDate(s, i + 1, d)

RECURSIVE ReplaceBare(_, _, _)
\* html.replace(<bare regex>/g, ...) from position i on
ReplaceBare(s, i, d) ==
    IF i > Len(s) THEN <<>>
    ELSE
        LET m == MatchBare(s, i)
        IN  IF m.ok
            THEN BareValue(d, m.key) \o ReplaceBare(s, m.end, d)
            ELSE <<s[i]>> \o ReplaceBare(s, i + 1, d)

renderTemplate(html, d) ==
    ReplaceBare(ReplaceDate(html, 1, d), 1, d)

(***************************************************************************)
(* Object names.  A name is a sequence of tokens; a template key, a job    *)
(* id, a timestamp and ".pdf" are one token each, a client name is spelled *)
(* out in characters because safeSlug rewrites it character by character.  *)
(***************************************************************************)
Digits == <<"0", "1", "2", "3", "4", "5", "6", "7", "8", "9">>

RECURSIVE NumStr(_)
\* String(n)
NumStr(n) ==
    IF n < 10 THEN Digits[n + 1]
    ELSE NumStr(n \div 10) \o Digits[(n % 10) + 1]

\* nowStamp(): the UTC time to the second
nowStamp(t) ==
    "T" \o NumStr(t)

\* the n-th value crypto.randomUUID() returns: no two calls return the same
randomUUID(n) ==
    "uuid-" \o NumStr(n)

\* String.prototype.toLowerCase on one character
Lower(c) ==
    CASE c = "J" -> "j"
      [] c = "D" -> "d"
      [] OTHER -> c

\* [a-z0-9]
AlNum == {"j", "d", "a", "7"}

RECURSIVE Dashed(_, _)
\* .replace(/[^a-z0-9]+/g, "-"): inRun says the previous character was
\* part of the run being replaced
Dashed(s, inRun) ==
    IF s = <<>> THEN <<>>
    ELSE IF Head(s) \in AlNum THEN <<Head(s)>> \o Dashed(Tail(s), FALSE)
    ELSE IF inRun THEN Dashed(Tail(s), TRUE)
    ELSE <<"-">> \o Dashed(Tail(s), TRUE)

\* .replace(/^-|-$/g, "")
Trimmed(s) ==
    LET a == IF s # <<>> /\ Head(s) = "-" THEN Tail(s) ELSE s
    IN  IF a # <<>> /\ a[Len(a)] = "-" THEN SubSeq(a, 1, Len(a) - 1) ELSE a

SlugMax == 80

safeSlug(input) ==
    IF input = <<>> THEN <<"c", "l", "i", "e", "n", "t">>
    ELSE LET t == Trimmed(Dashed([i \in 1..Len(input) |-> Lower(input[i])], FALSE))
         IN  SubSeq(t, 1, IF Len(t) < SlugMax THEN Len(t) ELSE SlugMax)

\* a plausible slip: the fallback job id is one fixed value
JobIdSame(job_id, fresh) ==
    IF job_id # "" THEN job_id ELSE "uuid-0"

\* payload.job_id || crypto.randomUUID()
JobIdOf(job_id, fresh) ==
    IF job_id # "" THEN job_id ELSE fresh

\* payload.prefix || `pdfs/${nowStamp()}_${jobId}`
BasePrefix(prefix, stamp, jobId) ==
    IF prefix # <<>> THEN prefix ELSE <<"pdfs/", stamp, "_", jobId>>

\* `${templateKey}_${safeName}_${jobId}.pdf`
FileName(templateKey, client_name, jobId) ==
    <<templateKey, "_">> \o safeSlug(client_name) \o <<"_", jobId, ".pdf">>

\* `${basePrefix}/${fileName}`
ObjectName(basePrefix, fileName) ==
    basePrefix \o <<"/">> \o fileName

(***************************************************************************)
(* Templates and routes                                                    *)
(***************************************************************************)
\* Object.keys(TEMPLATE_FILES)
TemplateKeys ==
    <<"meal_first", "meal_weekly", "workout_first", "workout_weekly",
      "bundle_first", "bundle_weekly">>

\* property names every object inherits: TEMPLATE_FILES[k] is defined for
\* them and is no path
Inherited == {"constructor"}

\* TEMPLATE_FILES[templateKey]: "" where the lookup gives undefined
TEMPLATE_FILES(k) ==
    IF \E i \in DOMAIN TemplateKeys : TemplateKeys[i] = k THEN "path"
    ELSE IF k \in Inherited THEN "inherited"
    ELSE ""

\* reqBody?.template_key || reqQuery?.template_key || reqQuery?.template || ""
resolveTemplateKey(body_key, query_key, query_template) ==
    IF body_key # "" THEN body_key
    ELSE IF query_key # "" THEN query_key
    ELSE IF query_template # "" THEN query_template
    ELSE ""

\* a plausible slip: the batch ignores template_keys (as server.js does)
keysAll(isArray, template_keys) ==
    TemplateKeys

\* requested && requested.length > 0 ? requested : Object.keys(TEMPLATE_FILES)
keysToGenerate(isArray, template_keys) ==
    IF isArray /\ Len(template_keys) > 0 THEN template_keys ELSE TemplateKeys

\* results[key] = file: the keys of results in insertion order
PutResult(results, key) ==
    IF \E i \in DOMAIN results : results[i] = key THEN results
    ELSE Append(results, key)

\* a plausible slip: launch whenever no browser is there yet
LaunchUnlessReady(bp) ==
    bp # "fulfilled"

\* getBrowser: if (!browserPromise)
ShouldLaunch(bp) ==
    bp = "null"

\* a plausible slip: the bucket is never checked
BucketUnchecked(bucket) ==
    FALSE

\* uploadPdfAndSign: if (!BUCKET_NAME)
BucketMissing(bucket) ==
    bucket = ""

\* a plausible slip: the context is closed after the try block, not in finally
CloseOnSuccess(contexts, ctx, failed) ==
    IF failed THEN contexts ELSE contexts \ {ctx}

\* htmlToPdfBuffer: finally { await context.close() }
CloseContext(contexts, ctx, failed) ==
    contexts \ {ctx}

MissingBucket == "Missing BUCKET_NAME env var"
MissingKey == "Missing template_key"
UnknownKey == "Unknown template_key"

(***************************************************************************)
(* A request                                                               *)
(***************************************************************************)
IdleRequest ==
    [pc |-> "idle", route |-> "", tkey |-> "", isArray |-> FALSE,
     tkeys |-> <<>>, job_id |-> "", prefix |-> <<>>, client |-> <<>>,
     idx |-> 0, launch |-> 0, err |-> "", objectName |-> <<>>,
     results |-> <<>>, done |-> <<>>, rendered |-> 0, upCalls |-> 0,
     status |-> 0, error |-> "", files |-> <<>>, file |-> <<>>, failAt |-> 0]

\* the keys the handler walks: one for /pdf, keysToGenerate for /pdfs
Keys(rq) ==
    IF rq.route = "pdf" THEN <<rq.tkey>>
    ELSE keysToGenerate(rq.isArray, rq.tkeys)

CurKey(rq) ==
    Keys(rq)[rq.idx]

\* a plausible slip: the batch answers with what it has when a template fails
FailPartial(rq, msg) ==
    [rq EXCEPT !.pc = "responded", !.status = 200, !.error = msg,
               !.files = rq.results, !.failAt = rq.idx]

\* catch (err): res.status(500).json({ ok: false, error: err.message })
Fail(rq, msg) ==
    [rq EXCEPT !.pc = "responded", !.status = 500, !.error = msg,
               !.files = <<>>, !.file = <<>>, !.failAt = rq.idx]

\* generateOnePdf up to its first await: the lookup, then fs.readFile
Enter(rq) ==
    IF TEMPLATE_FILES(CurKey(rq)) = "" THEN Fail(rq, UnknownKey)
    ELSE [rq EXCEPT !.pc = "readFile"]

(***************************************************************************)
(* The server.  Node runs one callback at a time: an action is the code    *)
(* between two awaits.                                                     *)
(***************************************************************************)
MaxReqs == 1        \* requests received where every key and name is tried
MaxRacing == 2      \* requests received where the browser is shared and shut down
MaxKeys == 2        \* longest template_keys array a request carries
MaxSignals == 2     \* termination signals delivered
MaxClock == 1       \* seconds that pass

Reqs == DOMAIN req
Sigs == DOMAIN sd

InitServer(n) ==
    /\ BUCKET_NAME \in {"", "bkt"}
    /\ browserPromise = "null"
    /\ launchCalls = 0
    /\ closeCalls = 0
    /\ openContexts = {}
    /\ exited = FALSE
    /\ sd = [i \in 1..MaxSignals |-> "none"]
    /\ req = [r \in 1..n |-> IdleRequest]
    /\ uploads = EmptyBag
    /\ saveCalls = 0
    /\ signCalls = 0
    /\ clock = 0
    /\ uuidCount = 0

\* requests take the slots in order
NextSlot(r) ==
    /\ ~exited
    /\ req[r].pc = "idle"
    /\ \A q \in Reqs : q < r => req[q].pc # "idle"

Named(rq, nm) ==
    [rq EXCEPT !.job_id = nm.job_id, !.prefix = nm.prefix, !.client = nm.client]

\* app.post("/pdf"), up to the first await
ReceivePdf(r, body_key, query_key, query_template, nm) ==
    /\ NextSlot(r)
    /\ LET templateKey == resolveTemplateKey(body_key, query_key, query_template)
           rq == [Named(IdleRequest, nm) EXCEPT !.route = "pdf",
                                                !.tkey = templateKey]
       IN  req' = [req EXCEPT ![r] =
                IF templateKey = ""
                THEN [rq EXCEPT !.pc = "responded", !.status = 400,
                                !.error = MissingKey]
                ELSE Enter([rq EXCEPT !.idx = 1])]
    /\ UNCHANGED <<BUCKET_NAME, browserPromise, launchCalls, closeCalls,
                   openContexts, exited, sd, uploads, saveCalls, signCalls,
                   clock, uuidCount, rvars>>

\* app.post("/pdfs"), up to the first await
ReceivePdfs(r, isArray, template_keys, nm) ==
    /\ NextSlot(r)
    /\ LET rq == [Named(IdleRequest, nm) EXCEPT !.route = "pdfs",
                                                !.isArray = isArray,
                                                !.tkeys = template_keys]
       IN  req' = [req EXCEPT ![r] = Enter([rq EXCEPT !.idx = 1])]
    /\ UNCHANGED <<BUCKET_NAME, browserPromise, launchCalls, closeCalls,
                   openContexts, exited, sd, uploads, saveCalls, signCalls,
                   clock, uuidCount, rvars>>

\* fs.readFile resolves: renderTemplate, then htmlToPdfBuffer calls getBrowser
ReadFileOk(r) ==
    /\ ~exited
    /\ req[r].pc = "readFile"
    /\ TEMPLATE_FILES(CurKey(req[r])) = "path"
    /\ LET launch == ShouldLaunch(browserPromise)
           n == IF launch THEN launchCalls + 1 ELSE launchCalls
       IN  /\ browserPromise' = IF launch THEN "pending" ELSE browserPromise
           /\ launchCalls' = n
           /\ req' = [req EXCEPT ![r].pc = "awaitBrowser", ![r].launch = n]
    /\ UNCHANGED <<BUCKET_NAME, closeCalls, openContexts, exited, sd, uploads,
                   saveCalls, signCalls, clock, uuidCount, rvars>>

\* fs.readFile rejects (no such file, or the path is no string)
ReadFileFail(r) ==
    /\ ~exited
    /\ req[r].pc = "readFile"
    /\ req' = [req EXCEPT ![r] = Fail(req[r], "readFile failed")]
    /\ UNCHANGED <<BUCKET_NAME, browserPromise, launchCalls, closeCalls,
                   openContexts, exited, sd, uploads, saveCalls, signCalls,
                   clock, uuidCount, rvars>>

\* chromium.launch resolves
LaunchOk ==
    /\ ~exited
    /\ browserPromise = "pending"
    /\ browserPromise' = "fulfilled"
    /\ UNCHANGED <<BUCKET_NAME, launchCalls, closeCalls, openContexts, exited,
                   sd, req, uploads, saveCalls, signCalls, clock, uuidCount,
                   rvars>>

\* chromium.launch rejects
LaunchFail ==
    /\ ~exited
    /\ browserPromise = "pending"
    /\ browserPromise' = "rejected"
    /\ UNCHANGED <<BUCKET_NAME, launchCalls, closeCalls, openContexts, exited,
                   sd, req, uploads, saveCalls, signCalls, clock, uuidCount,
                   rvars>>

\* await getBrowser() gives the browser: browser.newContext()
BrowserReady(r) ==
    /\ ~exited
    /\ req[r].pc = "awaitBrowser"
    /\ browserPromise = "fulfilled"
    /\ req' = [req EXCEPT ![r].pc = "newContext"]
    /\ UNCHANGED <<BUCKET_NAME, browserPromise, launchCalls, closeCalls,
                   openContexts, exited, sd, uploads, saveCalls, signCalls,
                   clock, uuidCount, rvars>>

\* await getBrowser() throws: the launch was rejected
BrowserRejected(r) ==
    /\ ~exited
    /\ req[r].pc = "awaitBrowser"
    /\ browserPromise = "rejected"
    /\ req' = [req EXCEPT ![r] = Fail(req[r], "launch failed")]
    /\ UNCHANGED <<BUCKET_NAME, browserPromise, launchCalls, closeCalls,
                   openContexts, exited, sd, uploads, saveCalls, signCalls,
                   clock, uuidCount, rvars>>

\* browser.newContext() resolves: the try block starts with context.newPage()
NewContextOk(r) ==
    /\ ~exited
    /\ req[r].pc = "newContext"
    /\ closeCalls = 0
    /\ openContexts' = openContexts \cup {<<r, req[r].idx>>}
    /\ req' = [req EXCEPT ![r].pc = "newPage"]
    /\ UNCHANGED <<BUCKET_NAME, browserPromise, launchCalls, closeCalls,
                   exited, sd, uploads, saveCalls, signCalls, clock, uuidCount,
                   rvars>>

\* browser.newContext() rejects: thrown before the try block
NewContextFail(r) ==
    /\ ~exited
    /\ req[r].pc = "newContext"
    /\ req' = [req EXCEPT ![r] = Fail(req[r], "newContext failed")]
    /\ UNCHANGED <<BUCKET_NAME, browserPromise, launchCalls, closeCalls,
                   openContexts, exited, sd, uploads, saveCalls, signCalls,
                   clock, uuidCount, rvars>>

\* the awaits of the try block, in order, and what follows the last
TrySteps == <<"newPage", "setContent", "pdf", "pageClose", "finally">>

StepAfter(pc) ==
    TrySteps[(CHOOSE i \in 1..4 : TrySteps[i] = pc) + 1]

\* context.newPage, page.setContent, page.pdf or page.close resolves; after
\* page.close the pdf is returned and the finally block starts
PageOk(r) ==
    /\ ~exited
    /\ req[r].pc \in {"newPage", "setContent", "pdf", "pageClose"}
    /\ closeCalls = 0
    /\ req' = [req EXCEPT ![r].pc = StepAfter(req[r].pc),
                          ![r].rendered = IF req[r].pc = "pdf" THEN @ + 1 ELSE @]
    /\ UNCHANGED <<BUCKET_NAME, browserPromise, launchCalls, closeCalls,
                   openContexts, exited, sd, uploads, saveCalls, signCalls,
                   clock, uuidCount, rvars>>

\* one of the four rejects: the finally block starts with the error pending
PageFail(r) ==
    /\ ~exited
    /\ req[r].pc \in {"newPage", "setContent", "pdf", "pageClose"}
    /\ req' = [req EXCEPT ![r].pc = "finally", ![r].err = "render failed"]
    /\ UNCHANGED <<BUCKET_NAME, browserPromise, launchCalls, closeCalls,
                   openContexts, exited, sd, uploads, saveCalls, signCalls,
                   clock, uuidCount, rvars>>

\* finally { await context.close() } with an error pending: it is rethrown
FinallyThrow(r) ==
    /\ ~exited
    /\ req[r].pc = "finally"
    /\ req[r].err # ""
    /\ openContexts' = CloseContext(openContexts, <<r, req[r].idx>>, TRUE)
    /\ req' = [req EXCEPT ![r] = Fail(req[r], req[r].err)]
    /\ UNCHANGED <<BUCKET_NAME, browserPromise, launchCalls, closeCalls,
                   exited, sd, uploads, saveCalls, signCalls, clock, uuidCount,
                   rvars>>

\* finally { await context.close() } after the pdf was made: generateOnePdf
\* names the object and calls uploadPdfAndSign, which checks the bucket and
\* calls file.save
FinallyUpload(r) ==
    /\ ~exited
    /\ req[r].pc = "finally"
    /\ req[r].err = ""
    /\ openContexts' = CloseContext(openContexts, <<r, req[r].idx>>, FALSE)
    /\ LET rq == req[r]
           generated == rq.job_id = ""
           jobId == JobIdOf(rq.job_id, randomUUID(uuidCount + 1))
           basePrefix == BasePrefix(rq.prefix, nowStamp(clock), jobId)
           objectName == ObjectName(basePrefix,
                                    FileName(CurKey(rq), rq.client, jobId))
           up == [rq EXCEPT !.objectName = objectName, !.upCalls = @ + 1]
       IN  /\ uuidCount' = IF generated THEN uuidCount + 1 ELSE uuidCount
           /\ uploads' = uploads (+)
                  SetToBag({[name |-> objectName, generated |-> generated]})
           /\ IF BucketMissing(BUCKET_NAME)
              THEN /\ req' = [req EXCEPT ![r] = Fail(up, MissingBucket)]
                   /\ saveCalls' = saveCalls
              ELSE /\ req' = [req EXCEPT ![r] = [up EXCEPT !.pc = "save"]]
                   /\ saveCalls' = saveCalls + 1
    /\ UNCHANGED <<BUCKET_NAME, browserPromise, launchCalls, closeCalls,
                   exited, sd, signCalls, clock, rvars>>

\* file.save resolves: file.getSignedUrl
SaveOk(r) ==
    /\ ~exited
    /\ req[r].pc = "save"
    /\ req' = [req EXCEPT ![r].pc = "sign"]
    /\ signCalls' = signCalls + 1
    /\ UNCHANGED <<BUCKET_NAME, browserPromise, launchCalls, closeCalls,
                   openContexts, exited, sd, uploads, saveCalls, clock,
                   uuidCount, rvars>>

\* file.save rejects
SaveFail(r) ==
    /\ ~exited
    /\ req[r].pc = "save"
    /\ req' = [req EXCEPT ![r] = Fail(req[r], "save failed")]
    /\ UNCHANGED <<BUCKET_NAME, browserPromise, launchCalls, closeCalls,
                   openContexts, exited, sd, uploads, saveCalls, signCalls,
                   clock, uuidCount, rvars>>

\* file.getSignedUrl resolves: generateOnePdf returns the file; /pdf answers
\* 200, /pdfs stores it under its key and goes on to the next key or answers
SignOk(r) ==
    /\ ~exited
    /\ req[r].pc = "sign"
    /\ LET rq == req[r]
           got == [rq EXCEPT !.results = PutResult(rq.results, CurKey(rq)),
                             !.done = Append(rq.done, CurKey(rq))]
       IN  req' = [req EXCEPT ![r] =
                IF rq.route = "pdf"
                THEN [got EXCEPT !.pc = "responded", !.status = 200,
                                 !.file = rq.objectName]
                ELSE IF rq.idx < Len(Keys(rq))
                THEN Enter([got EXCEPT !.idx = rq.idx + 1])
                ELSE [got EXCEPT !.pc = "responded", !.status = 200,
                                 !.files = got.results]]
    /\ UNCHANGED <<BUCKET_NAME, browserPromise, launchCalls, closeCalls,
                   openContexts, exited, sd, uploads, saveCalls, signCalls,
                   clock, uuidCount, rvars>>

\* file.getSignedUrl rejects
SignFail(r) ==
    /\ ~exited
    /\ req[r].pc = "sign"
    /\ req' = [req EXCEPT ![r] = Fail(req[r], "getSignedUrl failed")]
    /\ UNCHANGED <<BUCKET_NAME, browserPromise, launchCalls, closeCalls,
                   openContexts, exited, sd, uploads, saveCalls, signCalls,
                   clock, uuidCount, rvars>>

\* a second passes
Tick ==
    /\ ~exited
    /\ clock < MaxClock
    /\ clock' = clock + 1
    /\ UNCHANGED <<BUCKET_NAME, browserPromise, launchCalls, closeCalls,
                   openContexts, exited, sd, req, uploads, saveCalls,
                   signCalls, uuidCount, rvars>>

(***************************************************************************)
(* shutdown(), registered for SIGTERM and for SIGINT: each signal that     *)
(* arrives starts one invocation.                                          *)
(***************************************************************************)
\* a signal arrives: shutdown() up to its first await, or to process.exit
\* when no browser was ever asked for
Signal(i) ==
    /\ ~exited
    /\ sd[i] = "none"
    /\ \A j \in Sigs : j < i => sd[j] # "none"
    /\ IF browserPromise = "null"
       THEN /\ sd' = [sd EXCEPT ![i] = "done"]
            /\ exited' = TRUE
       ELSE /\ sd' = [sd EXCEPT ![i] = "awaitBrowser"]
            /\ exited' = exited
    /\ UNCHANGED <<BUCKET_NAME, browserPromise, launchCalls, closeCalls,
                   openContexts, req, uploads, saveCalls, signCalls, clock,
                   uuidCount, rvars>>

\* await browserPromise gives the browser: browser.close()
ShutdownClose(i) ==
    /\ ~exited
    /\ sd[i] = "awaitBrowser"
    /\ browserPromise = "fulfilled"
    /\ sd' = [sd EXCEPT ![i] = "closing"]
    /\ closeCalls' = closeCalls + 1
    /\ UNCHANGED <<BUCKET_NAME, browserPromise, launchCalls, openContexts,
                   exited, req, uploads, saveCalls, signCalls, clock,
                   uuidCount, rvars>>

\* await browserPromise throws: caught and ignored, then process.exit(0)
ShutdownNoBrowser(i) ==
    /\ ~exited
    /\ sd[i] = "awaitBrowser"
    /\ browserPromise = "rejected"
    /\ sd' = [sd EXCEPT ![i] = "done"]
    /\ exited' = TRUE
    /\ UNCHANGED <<BUCKET_NAME, browserPromise, launchCalls, closeCalls,
                   openContexts, req, uploads, saveCalls, signCalls, clock,
                   uuidCount, rvars>>

\* browser.close() settles (the browser and its contexts are gone), then
\* process.exit(0)
ShutdownExit(i) ==
    /\ ~exited
    /\ sd[i] = "closing"
    /\ sd' = [sd EXCEPT ![i] = "done"]
    /\ openContexts' = {}
    /\ exited' = TRUE
    /\ UNCHANGED <<BUCKET_NAME, browserPromise, launchCalls, closeCalls, req,
                   uploads, saveCalls, signCalls, clock, uuidCount, rvars>>

(***************************************************************************)
(* What callers send                                                       *)
(***************************************************************************)
BodyKeys == {"", "meal_first", "nope", "constructor"}
QueryKeys == {"", "workout_first"}
QueryTemplates == {"", "nope"}
BatchKeys == {"meal_first", "workout_first", "nope"}
KeyArrays == UNION { [1..n -> BatchKeys] : n \in 0..MaxKeys }
KnownArrays == UNION { [1..n -> {"meal_first"}] : n \in 1..MaxKeys }

\* the object name in an earlier 200 answer of /pdf, which a caller can
\* send back: its job id and its prefix
Answered == { req[q].file : q \in { p \in Reqs : req[p].file # <<>> } }
PrefixIn(name) == SubSeq(name, 1, (CHOOSE i \in DOMAIN name : name[i] = "/") - 1)
JobIdIn(name) == name[Len(name) - 1]

JobIds == {"", "j1"} \cup { JobIdIn(n) : n \in Answered }
Prefixes == {<<>>, <<"p1">>} \cup { PrefixIn(n) : n \in Answered }
Namings == [job_id : JobIds, prefix : Prefixes, client : {<<"J", "!", " ", "D">>}]
\* a caller that names the job and the folder, and no client
Supplied == [job_id |-> "j1", prefix |-> <<"p1">>, client |-> <<>>]

InitIdleRender ==
    /\ tpl = <<>>
    /\ data = [a |-> Undefined, b |-> Undefined]
    /\ out = <<>>
    /\ rpc = "idle"

Init ==
    /\ InitServer(MaxReqs)
    /\ InitIdleRender

\* a deployment with its bucket set
InitConfigured ==
    /\ Init
    /\ BUCKET_NAME = "bkt"

InitLife ==
    /\ InitServer(MaxRacing)
    /\ InitIdleRender
    /\ BUCKET_NAME = "bkt"

\* the steps of a request after it was received
Handle(r) ==
    \/ ReadFileOk(r)
    \/ ReadFileFail(r)
    \/ BrowserReady(r)
    \/ BrowserRejected(r)
    \/ NewContextOk(r)
    \/ NewContextFail(r)
    \/ PageOk(r)
    \/ PageFail(r)
    \/ FinallyThrow(r)
    \/ FinallyUpload(r)
    \/ SaveOk(r)
    \/ SaveFail(r)
    \/ SignOk(r)
    \/ SignFail(r)

\* the two routes with every key a caller may send
Next ==
    \/ \E r \in Reqs, bk \in BodyKeys, qk \in QueryKeys, qt \in QueryTemplates :
          ReceivePdf(r, bk, qk, qt, Supplied)
    \/ \E r \in Reqs, ks \in KeyArrays : ReceivePdfs(r, TRUE, ks, Supplied)
    \/ \E r \in Reqs : ReceivePdfs(r, FALSE, <<>>, Supplied)
    \/ \E r \in Reqs : Handle(r)
    \/ LaunchOk
    \/ LaunchFail

Spec == Init /\ [][Next]_vars

\* the browser from its launch to its shutdown
NextLife ==
    \/ \E r \in Reqs : ReceivePdf(r, "meal_first", "", "", Supplied)
    \/ \E r \in Reqs : ReceivePdfs(r, TRUE, <<"workout_first">>, Supplied)
    \/ \E r \in Reqs : Handle(r)
    \/ LaunchOk
    \/ LaunchFail
    \/ \E i \in Sigs : Signal(i)
    \/ \E i \in Sigs : ShutdownClose(i)
    \/ \E i \in Sigs : ShutdownNoBrowser(i)
    \/ \E i \in Sigs : ShutdownExit(i)

SpecLife == InitLife /\ [][NextLife]_vars

\* the names of the objects, with every way of naming the job
NextPaths ==
    \/ \E r \in Reqs, nm \in Namings : ReceivePdf(r, "meal_first", "", "", nm)
    \/ \E r \in Reqs, ks \in KnownArrays, nm \in Namings :
          ReceivePdfs(r, TRUE, ks, nm)
    \/ \E r \in Reqs : Handle(r)
    \/ LaunchOk
    \/ LaunchFail
    \/ Tick

SpecPaths == InitConfigured /\ [][NextPaths]_vars

(***************************************************************************)
(* The substitution engine on its own: templates are up to MaxPieces       *)
(* pieces long, payloads give the fields a and b.                          *)
(***************************************************************************)
MaxPieces == 3

Pieces ==
    { <<"{", "{", "a", "}", "}">>,
      <<"{", "{", "a", "|B", "}", "}">>,
      <<"{", "{", " ", "b", " ", "|o", " ", "}", "}">>,
      <<"{", "{", " ", "b", " ", "}", "}">>,
      <<"{", "{">>,
      <<"}", "}">>,
      <<"x">> }

RECURSIVE Flatten(_)
Flatten(ps) ==
    IF ps = <<>> THEN <<>> ELSE Head(ps) \o Flatten(Tail(ps))

Templates ==
    { Flatten(ps) : ps \in UNION { [1..n -> Pieces] : n \in 0..MaxPieces } }

ValuesA ==
    { Undefined, Str(<<>>), Str(<<"D">>), Str(<<"b">>),
      Str(<<"{", "{", "b", "}", "}">>), Num(<<"7">>) }

ValuesB ==
    { Undefined, Null, Str(<<"x">>), Str(<<"{", "{", "a", "}", "}">>) }

Payloads == [a : ValuesA, b : ValuesB]

InitRender ==
    /\ InitServer(MaxReqs)
    /\ BUCKET_NAME = ""
    /\ tpl \in Templates
    /\ data \in Payloads
    /\ out = <<>>
    /\ rpc = "call"

Render ==
    /\ rpc = "call"
    /\ out' = renderTemplate(tpl, data)
    /\ rpc' = "done"
    /\ UNCHANGED <<tpl, data, svars>>

SpecRender == InitRender /\ [][Render]_vars

(***************************************************************************)
(* Properties                                                              *)
(***************************************************************************)
Known(k) ==
    \E i \in DOMAIN TemplateKeys : TemplateKeys[i] = k

Responded(r) ==
    req[r].pc = "responded"

\* the keys a /pdfs request asks for: its template_keys, or all six
Expected(rq) ==
    IF rq.isArray /\ rq.tkeys # <<>> THEN rq.tkeys ELSE TemplateKeys

RECURSIVE FirstOccurrences(_, _)
\* s without the elements of seen and without repetitions
FirstOccurrences(s, seen) ==
    IF s = <<>> THEN <<>>
    ELSE IF Head(s) \in seen THEN FirstOccurrences(Tail(s), seen)
    ELSE <<Head(s)>> \o FirstOccurrences(Tail(s), seen \cup {Head(s)})

\* C1: chromium.launch is called at most once in the life of the process,
\* and every request that has called getBrowser holds the promise of that
\* one launch, also when it called while the launch was still pending.
C1_LaunchedAtMostOnce ==
    /\ launchCalls <= 1
    /\ \A r \in Reqs : req[r].launch \in {0, 1}
    /\ \A r \in Reqs : req[r].pc = "awaitBrowser" => browserPromise # "null"

\* two requests wait for the launch that is still pending
C1_Witness ==
    /\ browserPromise = "pending"
    /\ launchCalls = 1
    /\ \E r, q \in Reqs :
          r # q /\ req[r].pc = "awaitBrowser" /\ req[q].pc = "awaitBrowser"

\* C2: a /pdfs batch in which a template failed has answered 500 with an
\* error and no files, in the very step of the failure: the failing template
\* is the last one it started, whatever number of templates had succeeded
\* before; and a batch answers 200 only when no template failed.
C2_BatchFailsWhole ==
    \A r \in Reqs :
        req[r].route = "pdfs" =>
            /\ req[r].failAt # 0 =>
                  /\ Responded(r)
                  /\ req[r].status = 500
                  /\ req[r].error # ""
                  /\ req[r].files = <<>>
                  /\ req[r].file = <<>>
                  /\ req[r].idx = req[r].failAt
                  /\ Len(req[r].done) = req[r].failAt - 1
            /\ Responded(r) /\ req[r].failAt = 0 =>
                  /\ req[r].status = 200
                  /\ Len(req[r].done) = Len(Keys(req[r]))

\* a batch whose first template was uploaded and whose second failed
C2_Witness ==
    \E r \in Reqs :
        /\ req[r].route = "pdfs"
        /\ req[r].failAt = 2
        /\ Len(req[r].done) = 1
        /\ req[r].status = 500

\* C3: a request with no template key, or with a key outside the six, is
\* answered 400, and 500 is answered only for a failure of the template
\* file, the render or the storage.
C3_KeyErrorsAre400 ==
    \A r \in Reqs :
        Responded(r) =>
            /\ req[r].route = "pdf" /\ ~Known(req[r].tkey) => req[r].status = 400
            /\ (req[r].route = "pdfs" /\ req[r].isArray
                    /\ \E i \in DOMAIN req[r].tkeys : ~Known(req[r].tkeys[i]))
                  => req[r].status = 400
            /\ req[r].status = 500 =>
                  req[r].error \notin {MissingKey, UnknownKey}

\* C4: a /pdfs request handles its keys one at a time in the order asked
\* for (the order of TEMPLATE_FILES when no keys are given): the uploads
\* completed are a prefix of the keys asked for, the key in hand is the one
\* after the last upload, the request has at most one context open, and a
\* 200 answer lists exactly the keys asked for, in the order they were first
\* asked for.
C4_OneAtATimeInOrder ==
    \A r \in Reqs :
        req[r].route = "pdfs" =>
            LET want == Expected(req[r])
                n == Len(req[r].done)
            IN  /\ n <= Len(want)
                /\ req[r].done = SubSeq(want, 1, n)
                /\ req[r].idx \in {n, n + 1}
                /\ ~Responded(r) => req[r].idx = n + 1
                /\ Cardinality({c \in openContexts : c[1] = r}) <= 1
                /\ req[r].status = 200 =>
                      /\ n = Len(want)
                      /\ req[r].files = FirstOccurrences(want, {})

\* a batch answered 200 for two keys asked for against the order of
\* TEMPLATE_FILES
C4_Witness ==
    \E r \in Reqs :
        /\ req[r].route = "pdfs"
        /\ req[r].tkeys = <<"workout_first", "meal_first">>
        /\ req[r].status = 200
        /\ req[r].files = <<"workout_first", "meal_first">>

C6_ClosedExactlyOnce ==
    /\ closeCalls <= 1
    /\ exited /\ browserPromise = "fulfilled" => closeCalls = 1
    /\ launchCalls = 0 => closeCalls = 0

\* C7 as claimed: with no bucket, every answer to a request for known
\* templates is a 500 that names the missing bucket and references no
\* artifact, and file.save and file.getSignedUrl are never called.
C7_NoBucketAlwaysNamed ==
    BUCKET_NAME = "" =>
        /\ saveCalls = 0
        /\ signCalls = 0
        /\ \A r \in Reqs :
              (Responded(r) /\ \A i \in DOMAIN Keys(req[r]) : Known(Keys(req[r])[i]))
                  => /\ req[r].status = 500
                     /\ req[r].error = MissingBucket
                     /\ req[r].files = <<>>
                     /\ req[r].file = <<>>

\* C7 as amended: with no bucket, file.save and file.getSignedUrl are never
\* called, no answer is a 200 or references an artifact, and every request
\* for which uploadPdfAndSign was called (its template resolved, read and
\* rendered, its context closed) is answered 500 with the error that names
\* the missing bucket.
C7_NoBucketNoArtifact ==
    BUCKET_NAME = "" =>
        /\ saveCalls = 0
        /\ signCalls = 0
        /\ \A r \in Reqs :
              /\ req[r].pc \notin {"save", "sign"}
              /\ Responded(r) =>
                    /\ req[r].status \in {400, 500}
                    /\ req[r].files = <<>>
                    /\ req[r].file = <<>>
                    /\ req[r].upCalls > 0 =>
                          /\ req[r].status = 500
                          /\ req[r].error = MissingBucket

\* with no bucket, a batch is answered 500 with the missing bucket named
C7_Witness ==
    /\ BUCKET_NAME = ""
    /\ \E r \in Reqs :
          /\ req[r].route = "pdfs"
          /\ Responded(r)
          /\ req[r].upCalls = 1
          /\ req[r].status = 500
          /\ req[r].error = MissingBucket

\* C9: an open context belongs to a htmlToPdfBuffer call that is still
\* inside its try or finally block, for the key that call renders, so a call
\* that has returned or thrown has left no context open; and when no request
\* is in flight no context is open.
C9_ContextsReleased ==
    /\ \A c \in openContexts :
          /\ req[c[1]].pc \in {"newPage", "setContent", "pdf", "pageClose", "finally"}
          /\ req[c[1]].idx = c[2]
    /\ (\A r \in Reqs : req[r].pc \in {"idle", "responded"}) => openContexts = {}

\* a render failed inside the try block, its request was answered, and no
\* context is open
C9_Witness ==
    /\ openContexts = {}
    /\ \E r \in Reqs :
          /\ Responded(r)
          /\ req[r].error = "render failed"
          /\ req[r].rendered = 0

\* C10: a request that names a key outside the six renders nothing and
\* uploads nothing, before its answer and after it.
C10_ValidatedBeforeRendering ==
    \A r \in Reqs :
        (req[r].route # "" /\ \E i \in DOMAIN Keys(req[r]) : ~Known(Keys(req[r])[i]))
            => /\ req[r].rendered = 0
               /\ req[r].upCalls = 0

(***************************************************************************)
(* C8                                                                      *)
(***************************************************************************)
\* Inserted text made opaque: Protect marks a character so that no
\* character class and no brace of either regular expression matches it.
Protect(c) == "^" \o c
Alphabet == WS \cup Ident \cup Filters \cup {"{", "}", "x", "D", "M", "I", "7"}
Unprotect(c) ==
    IF c \in Alphabet THEN c ELSE CHOOSE x \in Alphabet : Protect(x) = c
ProtectAll(s) == [i \in 1..Len(s) |-> Protect(s[i])]
UnprotectAll(s) == [i \in 1..Len(s) |-> Unprotect(s[i])]

RECURSIVE OpaqueDate(_, _, _)
OpaqueDate(s, i, d) ==
    IF i > Len(s) THEN <<>>
    ELSE
        LET m == MatchDate(s, i)
        IN  IF m.ok
            THEN ProtectAll(formatDate(Lookup(d, m.key), m.fmt))
                     \o OpaqueDate(s, m.end, d)
            ELSE <<s[i]>> \o OpaqueDate(s, i + 1, d)

RECURSIVE OpaqueBare(_, _, _)
OpaqueBare(s, i, d) ==
    IF i > Len(s) THEN <<>>
    ELSE
        LET m == MatchBare(s, i)
        IN  IF m.ok
            THEN ProtectAll(BareValue(d, m.key)) \o OpaqueBare(s, m.end, d)
            ELSE <<s[i]>> \o OpaqueBare(s, i + 1, d)

\* what renderTemplate returns when no inserted text is ever matched again
RenderOpaque(html, d) ==
    UnprotectAll(OpaqueBare(OpaqueDate(html, 1, d), 1, d))

\* C8: the text inserted for a placeholder, by the date pass or by the bare
\* pass, is in the output verbatim and is never matched again as (part of)
\* a placeholder: renderTemplate returns what the opaque substitution returns.
C8_InsertedTextNotReprocessed ==
    rpc = "done" => out = RenderOpaque(tpl, data)

====
